---- MODULE Spec2Model ----
(***************************************************************************)
(* The Unsaid backend: a relay in front of the OpenRouter chat-completion  *)
(* API.  A request passes RateLimitMiddleware.dispatch, the dependencies   *)
(* get_current_user and verify_ai_consent, and the mode endpoint, which    *)
(* calls OpenRouterService._call_llm once and maps its failure with        *)
(* handle_ai_error.  Spec is the whole path; SpecErr is handle_ai_error on *)
(* any exception, SpecParse is _parse_options on any reply text, SpecBody  *)
(* is the clarify endpoint under every kind of request body, SpecModes is  *)
(* the five mode endpoints with the clock of the awaited POST, SpecConc is *)
(* dispatch line by line under concurrently handled requests, SpecTone is  *)
(* the tone endpoint on two requests that differ in target_tone only.      *)
(***************************************************************************)
EXTENDS Integers, Sequences, FiniteSets, TLC

(***************************************************************************)
(* Bounds of the model.                                                    *)
(***************************************************************************)
MaxLimit == 2       \* largest configured AI_RATE_LIMIT_PER_HOUR explored
MaxLog == 4         \* AI requests decided by the limiter in one run
MaxTime == 7197     \* horizon of the clock, in seconds: short of two ticks
MaxLines == 4       \* lines of a provider reply handed to the parser
MaxTasks == 2       \* AI requests handled concurrently

(***************************************************************************)
(* Program constants.                                                      *)
(***************************************************************************)
Window == 3600      \* RateLimitMiddleware.window

\* a limiter that guards every path
AiPrefixRoot == "/"

AI_PREFIX == "/api/ai"

Ticks == {Window - 1, Window, Window + 1}

Hosts == {"10.0.0.1"}
NoClient == "<no client>"       \* request.client is None
Clients == Hosts \cup {NoClient}
Paths == {"/api/ai/clarify", "/health"}

None == "<None>"

VARIABLES
    limit,      \* RateLimitMiddleware.limit
    supabase,   \* auth.supabase: TRUE when the client was created
    requests,   \* RateLimitMiddleware.requests: identifier -> timestamps
    now,        \* time.time()
    task,       \* the request being handled and its position in the code
                \* (SpecConc, SpecTone: one such request per asyncio task)
    log         \* history: the limiter's decisions, in order

vars == <<limit, supabase, requests, now, task, log>>

(***************************************************************************)
(* Strings.                                                                *)
(***************************************************************************)
StartsWith(s, p) == Len(s) >= Len(p) /\ SubSeq(s, 1, Len(p)) = p

UPPER == "ABCDEFGHIJKLMNOPQRSTUVWXYZ"
LOWER == "abcdefghijklmnopqrstuvwxyz"

LowerChar(c) ==
    IF \E i \in 1..Len(UPPER) : SubSeq(UPPER, i, i) = c
    THEN LET i == CHOOSE i \in 1..Len(UPPER) : SubSeq(UPPER, i, i) = c
         IN  SubSeq(LOWER, i, i)
    ELSE c

\* str.lower()
RECURSIVE Lower(_)
Lower(s) ==
    IF Len(s) = 0 THEN ""
    ELSE LowerChar(SubSeq(s, 1, 1)) \o Lower(SubSeq(s, 2, Len(s)))

\* sub in s
Contains(s, sub) ==
    \E i \in 1..(Len(s) - Len(sub) + 1) : SubSeq(s, i, i + Len(sub) - 1) = sub

(***************************************************************************)
(* RateLimitMiddleware                                                     *)
(***************************************************************************)
\* defaultdict(list): reading a missing key yields (and stores) []
Lookup(d, k) == IF k \in DOMAIN d THEN d[k] ELSE <<>>

Store(d, k, v) == [x \in (DOMAIN d) \cup {k} |-> IF x = k THEN v ELSE d[x]]

\* [req_time for req_time in self.requests[client_ip]
\*      if current_time - req_time < self.window]
\* Clean with the window taken in minutes
RECURSIVE CleanMinutes(_, _)
CleanMinutes(times, current_time) ==
    IF times = <<>> THEN <<>>
    ELSE IF current_time - Head(times) < Window \div 60
         THEN <<Head(times)>> \o CleanMinutes(Tail(times), current_time)
         ELSE CleanMinutes(Tail(times), current_time)

\* Clean that forgets to evict
CleanNothing(times, current_time) == times

\* Clean that keeps what is no older than the window
RECURSIVE CleanKeepsBoundary(_, _)
CleanKeepsBoundary(times, current_time) ==
    IF times = <<>> THEN <<>>
    ELSE IF current_time - Head(times) <= Window
         THEN <<Head(times)>> \o CleanKeepsBoundary(Tail(times), current_time)
         ELSE CleanKeepsBoundary(Tail(times), current_time)

RECURSIVE Clean(_, _)
Clean(times, current_time) ==
    IF times = <<>> THEN <<>>
    ELSE IF current_time - Head(times) < Window
         THEN <<Head(times)>> \o Clean(Tail(times), current_time)
         ELSE Clean(Tail(times), current_time)

\* one counter for all callers
ClientIpShared(client) == "unknown"

ClientIp(client) == IF client # NoClient THEN client ELSE "unknown"

RateLimitDetail(lim) ==
    "Rate limit exceeded. Maximum " \o ToString(lim) \o " AI requests per hour."

HTTPException(code, detail) == [status_code |-> code, detail |-> detail]


(***************************************************************************)
(* Auth middleware                                                         *)
(***************************************************************************)
Raise(exc) == [ok |-> FALSE, value |-> None, exc |-> exc]
Return(v) == [ok |-> TRUE, value |-> v, exc |-> HTTPException(0, None)]

\* what supabase.auth.get_user(token) does: returns a user, returns a
\* response without user, or raises
NoIdp == [kind |-> "none", id |-> None, text |-> None]
IdpOutcomes ==
    { [kind |-> "user", id |-> "user-1", text |-> None],
      [kind |-> "no_user", id |-> None, text |-> None],
      [kind |-> "raises", id |-> None, text |-> "invalid JWT"] }

StrHTTPException(e) == ToString(e.status_code) \o ": " \o e.detail

\* get_current_user without the "if not user_response.user" check
GetCurrentUserUnchecked(configured, authorization, idp) ==
    IF ~configured
    THEN Raise(HTTPException(500, "Supabase not configured"))
    ELSE IF ~StartsWith(authorization, "Bearer ")
    THEN Raise(HTTPException(401, "Invalid authorization header"))
    ELSE IF idp.kind = "raises"
    THEN Raise(HTTPException(401, "Authentication failed: " \o idp.text))
    ELSE Return(idp.id)

get_current_user(configured, authorization, idp) ==
    IF ~configured
    THEN Raise(HTTPException(500, "Supabase not configured"))
    ELSE IF ~StartsWith(authorization, "Bearer ")
    THEN Raise(HTTPException(401, "Invalid authorization header"))
    ELSE IF idp.kind = "raises"
    THEN Raise(HTTPException(401, "Authentication failed: " \o idp.text))
    ELSE IF idp.kind = "no_user"
    THEN \* the HTTPException raised in the try block is caught by
         \* "except Exception" and wrapped
         Raise(HTTPException(401, "Authentication failed: "
                 \o StrHTTPException(HTTPException(401, "Invalid token"))))
    ELSE Return(idp.id)

\* what supabase.table("preferences")...single().execute() does: raises
\* (no row, network), or returns a result whose data is None or a dict
Prefs(raises, has_data, data) ==
    [raises |-> raises, has_data |-> has_data, data |-> data]
NoPrefs == Prefs(FALSE, FALSE, {<<"none", "None">>})
PrefsOutcomes ==
    { Prefs(TRUE, FALSE, {}),
      Prefs(FALSE, FALSE, {}),
      Prefs(FALSE, TRUE, {}),
      Prefs(FALSE, TRUE, {<<"user_id", "user-1">>}),
      Prefs(FALSE, TRUE, {<<"ai_enabled", "None">>}),
      Prefs(FALSE, TRUE, {<<"ai_enabled", "False">>}),
      Prefs(FALSE, TRUE, {<<"ai_enabled", "True">>}) }

\* dict.get(key) on a dict held as a set of <<key, value>> pairs
DictGet(d, k) ==
    IF \E p \in d : p[1] = k THEN (CHOOSE p \in d : p[1] = k)[2] ELSE "None"

Truthy(v) == v \notin {"None", "False", ""}

CONSENT_DETAIL == "AI features require consent. Please enable AI in settings."

\* verify_ai_consent that takes a failed lookup for consent
VerifyAiConsentLookupFails(configured, authorization, idp, prefs) ==
    IF ~configured
    THEN Raise(HTTPException(500, "Supabase not configured"))
    ELSE LET user == get_current_user(configured, authorization, idp) IN
         IF ~user.ok THEN user
         ELSE IF prefs.raises
         THEN Return("True")
         ELSE IF ~prefs.has_data \/ prefs.data = {}
                 \/ ~Truthy(DictGet(prefs.data, "ai_enabled"))
         THEN Raise(HTTPException(403, CONSENT_DETAIL))
         ELSE Return("True")

\* verify_ai_consent that only rejects an explicit ai_enabled = False
VerifyAiConsentOptOut(configured, authorization, idp, prefs) ==
    IF ~configured
    THEN Raise(HTTPException(500, "Supabase not configured"))
    ELSE LET user == get_current_user(configured, authorization, idp) IN
         IF ~user.ok THEN user
         ELSE IF prefs.raises
         THEN Raise(HTTPException(403, CONSENT_DETAIL))
         ELSE IF prefs.has_data /\ DictGet(prefs.data, "ai_enabled") = "False"
         THEN Raise(HTTPException(403, CONSENT_DETAIL))
         ELSE Return("True")

verify_ai_consent(configured, authorization, idp, prefs) ==
    IF ~configured
    THEN Raise(HTTPException(500, "Supabase not configured"))
    ELSE LET user == get_current_user(configured, authorization, idp) IN
         IF ~user.ok THEN user
         ELSE IF prefs.raises
         THEN Raise(HTTPException(403, CONSENT_DETAIL))
         ELSE IF ~prefs.has_data \/ prefs.data = {}
                 \/ ~Truthy(DictGet(prefs.data, "ai_enabled"))
         THEN Raise(HTTPException(403, CONSENT_DETAIL))
         ELSE Return("True")

(***************************************************************************)
(* OpenRouterService: the error classes                                    *)
(***************************************************************************)
AIServiceError(message, error_type, retryable) ==
    [cls |-> "AIServiceError", message |-> message,
     error_type |-> error_type, retryable |-> retryable]

AIRateLimitError(message) ==
    [cls |-> "AIRateLimitError", message |-> message,
     error_type |-> "rate_limit", retryable |-> TRUE]
AIRateLimitErrorDefault ==
    AIRateLimitError("AI service rate limit exceeded. Please wait a moment.")

AITimeoutError(message) ==
    [cls |-> "AITimeoutError", message |-> message,
     error_type |-> "timeout", retryable |-> TRUE]

AIProviderError(message) ==
    [cls |-> "AIProviderError", message |-> message,
     error_type |-> "provider_error", retryable |-> TRUE]

AIConfigError(message) ==
    [cls |-> "AIConfigError", message |-> message,
     error_type |-> "config_error", retryable |-> FALSE]

AIParsingError(message) ==
    [cls |-> "AIParsingError", message |-> message,
     error_type |-> "parsing_error", retryable |-> TRUE]

\* an exception that is not an AIServiceError
OtherException(cls, message) ==
    [cls |-> cls, message |-> message, error_type |-> None, retryable |-> FALSE]

NoError == [cls |-> None, message |-> None, error_type |-> None, retryable |-> FALSE]

AIServiceClasses ==
    {"AIServiceError", "AIRateLimitError", "AITimeoutError",
     "AIProviderError", "AIConfigError", "AIParsingError"}

\* isinstance(e, cls) over the class hierarchy of openrouter.py
IsInstance(e, cls) ==
    \/ e.cls = cls
    \/ cls = "AIServiceError" /\ e.cls \in AIServiceClasses
    \/ cls = "Exception"

(***************************************************************************)
(* What the provider does with one POST                                    *)
(***************************************************************************)
\* a choice of the reply: "message" is absent, null or an object, whose
\* "content" is absent ("<absent>"), null ("None") or a string
Choice(message, content) == [message |-> message, content |-> content]
Absent == "<absent>"
REPLY_TEXT == "1. Foo\nWhy: bar\n2. Baz"

\* the reply body: not JSON at all, or an object with or without "choices"
Payload(is_json, has_choices, choices) ==
    [is_json |-> is_json, has_choices |-> has_choices, choices |-> choices]
NoPayload == Payload(FALSE, FALSE, <<>>)
GoodPayload == Payload(TRUE, TRUE, <<Choice("object", REPLY_TEXT)>>)
ErrorPayload == Payload(TRUE, FALSE, <<>>)
Payloads ==
    { NoPayload, ErrorPayload, GoodPayload,
      Payload(TRUE, TRUE, <<>>),
      Payload(TRUE, TRUE, <<Choice("absent", Absent)>>),
      Payload(TRUE, TRUE, <<Choice("null", Absent)>>),
      Payload(TRUE, TRUE, <<Choice("object", Absent)>>),
      Payload(TRUE, TRUE, <<Choice("object", "None")>>),
      Payload(TRUE, TRUE, <<Choice("object", "")>>),
      Payload(TRUE, TRUE, <<Choice("object", "Just say it"), Choice("object", "")>>) }

Statuses == {100, 200, 201, 302, 401, 402, 404, 429, 500, 503}

\* httpx.Response.is_success
IsSuccess(status_code) == 200 <= status_code /\ status_code <= 299

Response(status_code, payload) ==
    [kind |-> "response", status_code |-> status_code, payload |-> payload,
     exc |-> None]
Raises(exc, status_code) ==
    [kind |-> "raises", status_code |-> status_code, payload |-> NoPayload,
     exc |-> exc]
NoOutcome == [kind |-> "none", status_code |-> 0, payload |-> NoPayload, exc |-> None]

\* exceptions of the awaited client.post: httpx.TimeoutException,
\* httpx.ConnectError, httpx.HTTPStatusError (with its response's status)
\* and any other Exception (httpx.ReadError, ...)
Outcomes ==
    { Response(200, p) : p \in Payloads }
    \cup { Response(s, p) : s \in {201, 401, 429, 500},
                            p \in {ErrorPayload, GoodPayload} }
    \cup { Response(s, ErrorPayload) : s \in Statuses }
    \cup { Raises("TimeoutException", 0), Raises("ConnectError", 0),
           Raises("HTTPStatusError", 429), Raises("HTTPStatusError", 404),
           Raises("ReadError", 0) }

(***************************************************************************)
(* OpenRouterService._call_llm, from the awaited POST on                   *)
(***************************************************************************)
Failed(error) == [ok |-> FALSE, content |-> None, error |-> error]
Content(content) == [ok |-> TRUE, content |-> content, error |-> NoError]

\* the try block with the general "not is_success" test made first
CallLlmTryGeneralFirst(outcome) ==
    LET status_code == outcome.status_code
        data == outcome.payload
    IN  IF ~IsSuccess(status_code)
        THEN Failed(AIProviderError(
                 "AI service returned error: " \o ToString(status_code)))
        ELSE IF ~data.is_json
        THEN Failed(OtherException("JSONDecodeError", "Expecting value"))
        ELSE IF ~data.has_choices \/ Len(data.choices) = 0
        THEN Failed(AIParsingError("AI service returned an invalid response."))
        ELSE IF data.choices[1].message = "null"
        THEN Failed(OtherException("AttributeError",
                 "'NoneType' object has no attribute 'get'"))
        ELSE LET content ==
                     IF data.choices[1].message = "object"
                     THEN data.choices[1].content ELSE Absent
             IN  IF content \in {Absent, "None", ""}
                 THEN Failed(AIParsingError("AI service returned empty content."))
                 ELSE Content(content)

\* the try block: lines 112-143
CallLlmTry(outcome) ==
    LET status_code == outcome.status_code
        data == outcome.payload
    IN  IF status_code = 429 THEN Failed(AIRateLimitErrorDefault)
        ELSE IF status_code = 401
        THEN Failed(AIConfigError(
                 "AI service authentication failed. Please contact support."))
        ELSE IF status_code = 402
        THEN Failed(AIProviderError(
                 "AI service payment required. Please contact support."))
        ELSE IF status_code >= 500
        THEN Failed(AIProviderError(
                 "AI service is experiencing issues. Please try again later."))
        ELSE IF ~IsSuccess(status_code)
        THEN Failed(AIProviderError(
                 "AI service returned error: " \o ToString(status_code)))
        ELSE IF ~data.is_json
        THEN \* response.json() raises; caught by "except Exception"
             Failed(OtherException("JSONDecodeError", "Expecting value"))
        ELSE IF ~data.has_choices \/ Len(data.choices) = 0
        THEN Failed(AIParsingError("AI service returned an invalid response."))
        ELSE IF data.choices[1].message = "null"
        THEN \* .get("message", {}) is None; None.get raises
             Failed(OtherException("AttributeError",
                 "'NoneType' object has no attribute 'get'"))
        ELSE LET content ==
                     IF data.choices[1].message = "object"
                     THEN data.choices[1].content ELSE Absent
             IN  IF content \in {Absent, "None", ""}
                 THEN Failed(AIParsingError("AI service returned empty content."))
                 ELSE Content(content)

\* the except clauses with the last one passing the exception's text on
CallLlmExceptStr(e, status_code) ==
    IF e = "TimeoutException"
    THEN AITimeoutError("AI request took too long. Please try again.")
    ELSE IF e = "ConnectError"
    THEN AIProviderError(
             "Unable to connect to AI service. Check your internet connection.")
    ELSE IF e = "HTTPStatusError"
    THEN IF status_code = 429 THEN AIRateLimitErrorDefault
         ELSE AIProviderError("AI service error: " \o ToString(status_code))
    ELSE AIServiceError("Unexpected error: " \o e, "unknown", TRUE)

\* the except clauses: lines 145-167
CallLlmExcept(e, status_code) ==
    IF e = "TimeoutException"
    THEN AITimeoutError("AI request took too long. Please try again.")
    ELSE IF e = "ConnectError"
    THEN AIProviderError(
             "Unable to connect to AI service. Check your internet connection.")
    ELSE IF e = "HTTPStatusError"
    THEN IF status_code = 429 THEN AIRateLimitErrorDefault
         ELSE AIProviderError("AI service error: " \o ToString(status_code))
    ELSE AIServiceError("An unexpected error occurred. Please try again.",
                        "unknown", TRUE)

\* _call_llm without the final "except Exception" clause
CallLlmNoCatchAll(outcome) ==
    IF outcome.kind = "raises"
    THEN IF outcome.exc \in {"TimeoutException", "ConnectError", "HTTPStatusError"}
         THEN Failed(CallLlmExcept(outcome.exc, outcome.status_code))
         ELSE Failed(OtherException(outcome.exc, "transport failure"))
    ELSE CallLlmTry(outcome)

_call_llm(outcome) ==
    IF outcome.kind = "raises"
    THEN Failed(CallLlmExcept(outcome.exc, outcome.status_code))
    ELSE LET r == CallLlmTry(outcome) IN
         IF r.ok \/ IsInstance(r.error, "AIServiceError") THEN r
         ELSE Failed(CallLlmExcept(r.error.cls, 0))

(***************************************************************************)
(* OpenRouterService._parse_options                                        *)
(***************************************************************************)
IsSpace(c) == c \in {" ", "\t", "\n", "\r"}

RECURSIVE LStrip(_)
LStrip(s) ==
    IF Len(s) > 0 /\ IsSpace(SubSeq(s, 1, 1))
    THEN LStrip(SubSeq(s, 2, Len(s))) ELSE s

RECURSIVE RStrip(_)
RStrip(s) ==
    IF Len(s) > 0 /\ IsSpace(SubSeq(s, Len(s), Len(s)))
    THEN RStrip(SubSeq(s, 1, Len(s) - 1)) ELSE s

\* str.strip()
Strip(s) == RStrip(LStrip(s))

\* s[n:]
From(s, n) == IF n >= Len(s) THEN "" ELSE SubSeq(s, n + 1, Len(s))

\* s[:n]
UpTo(s, n) == IF n >= Len(s) THEN s ELSE SubSeq(s, 1, n)

\* str.find(c) + 1 for a one-character c: 0 when c is not in s
Find(s, c) ==
    IF \E i \in 1..Len(s) : SubSeq(s, i, i) = c
    THEN CHOOSE i \in 1..Len(s) :
             /\ SubSeq(s, i, i) = c
             /\ \A j \in 1..(i - 1) : SubSeq(s, j, j) # c
    ELSE 0

\* s.split("\n")
RECURSIVE SplitLines(_)
SplitLines(s) ==
    LET i == Find(s, "\n") IN
    IF i = 0 THEN <<s>>
    ELSE <<UpTo(s, i - 1)>> \o SplitLines(From(s, i))

LABELS == {"Option 1:", "Option 2:", "Option 3:", "1.", "2.", "3."}

IsLabel(line) == \E l \in LABELS : StartsWith(line, l)

\* line.split(":", 1)[-1].strip() if ":" in line else line[2:].strip()
LabelText(line) ==
    IF Find(line, ":") # 0 THEN Strip(From(line, Find(line, ":")))
    ELSE Strip(From(line, 2))

AIOption(text, why) == [text |-> text, why |-> why]

DEFAULT_WHY == "A valid alternative"
FALLBACK_WHY == "AI suggestion"
FALLBACK_LEN == 500
MAX_OPTIONS == 3

Finalize(options, current_text, current_why) ==
    IF current_text # ""
    THEN Append(options, AIOption(current_text,
             IF current_why # "" THEN current_why ELSE DEFAULT_WHY))
    ELSE options

\* the for loop that drops the suggestion in progress at a new label
RECURSIVE ParseLinesDropsPrevious(_, _, _, _)
ParseLinesDropsPrevious(lines, options, current_text, current_why) ==
    IF lines = <<>> THEN Finalize(options, current_text, current_why)
    ELSE LET line == Strip(Head(lines)) IN
         IF IsLabel(line)
         THEN ParseLinesDropsPrevious(Tail(lines), options, LabelText(line), "")
         ELSE IF Lower(UpTo(line, 4)) = "why:"
         THEN ParseLinesDropsPrevious(Tail(lines), options, current_text,
                                      Strip(From(line, 4)))
         ELSE ParseLinesDropsPrevious(Tail(lines), options, current_text,
                                      current_why)

\* the for loop without "current_why = ''" at a new label
RECURSIVE ParseLinesWhyKept(_, _, _, _)
ParseLinesWhyKept(lines, options, current_text, current_why) ==
    IF lines = <<>> THEN Finalize(options, current_text, current_why)
    ELSE LET line == Strip(Head(lines)) IN
         IF IsLabel(line)
         THEN ParseLinesWhyKept(Tail(lines),
                                Finalize(options, current_text, current_why),
                                LabelText(line), current_why)
         ELSE IF Lower(UpTo(line, 4)) = "why:"
         THEN ParseLinesWhyKept(Tail(lines), options, current_text,
                                Strip(From(line, 4)))
         ELSE ParseLinesWhyKept(Tail(lines), options, current_text, current_why)

\* the for loop, then "Add last option"
RECURSIVE ParseLines(_, _, _, _)
ParseLines(lines, options, current_text, current_why) ==
    IF lines = <<>> THEN Finalize(options, current_text, current_why)
    ELSE LET line == Strip(Head(lines)) IN
         IF IsLabel(line)
         THEN ParseLines(Tail(lines),
                         Finalize(options, current_text, current_why),
                         LabelText(line), "")
         ELSE IF Lower(UpTo(line, 4)) = "why:"   \* line.lower().startswith("why:")
         THEN ParseLines(Tail(lines), options, current_text,
                         Strip(From(line, 4)))
         ELSE ParseLines(Tail(lines), options, current_text, current_why)

\* _parse_options without "Fallback if parsing failed"
ParseOptionsNoFallback(response_text) ==
    LET options == ParseLines(SplitLines(Strip(response_text)), <<>>, "", "")
    IN  SubSeq(options, 1, IF Len(options) < MAX_OPTIONS
                           THEN Len(options) ELSE MAX_OPTIONS)

\* _parse_options whose fallback takes the stripped text
ParseOptionsStrippedFallback(response_text) ==
    LET parsed == ParseLines(SplitLines(Strip(response_text)), <<>>, "", "")
        options == IF parsed = <<>>
                   THEN <<AIOption(UpTo(Strip(response_text), FALLBACK_LEN),
                                   FALLBACK_WHY)>>
                   ELSE parsed
    IN  SubSeq(options, 1, IF Len(options) < MAX_OPTIONS
                           THEN Len(options) ELSE MAX_OPTIONS)

_parse_options(response_text) ==
    LET parsed == ParseLines(SplitLines(Strip(response_text)), <<>>, "", "")
        options == IF parsed = <<>>
                   THEN <<AIOption(UpTo(response_text, FALLBACK_LEN), FALLBACK_WHY)>>
                   ELSE parsed
    IN  SubSeq(options, 1, IF Len(options) < MAX_OPTIONS
                           THEN Len(options) ELSE MAX_OPTIONS)

\* AIResponse(options=self._parse_options(response), original_valid=True)
AIResponse(options, original_valid) ==
    [options |-> options, original_valid |-> original_valid]

(***************************************************************************)
(* routers/ai.py                                                           *)
(***************************************************************************)
GENERIC_503 == "AI service is temporarily unavailable."
GENERIC_500 == "An unexpected error occurred. Please try again."

\* handle_ai_error testing the base class before its subclasses
HandleAiErrorBaseFirst(e) ==
    IF IsInstance(e, "AIServiceError")
    THEN HTTPException(IF e.retryable THEN 503 ELSE 500, e.message)
    ELSE HTTPException(500, GENERIC_500)

\* handle_ai_error passing the configuration error's own message on
HandleAiErrorLeaks(e) ==
    IF IsInstance(e, "AIRateLimitError") THEN HTTPException(429, e.message)
    ELSE IF IsInstance(e, "AITimeoutError") THEN HTTPException(504, e.message)
    ELSE IF IsInstance(e, "AIConfigError") THEN HTTPException(503, e.message)
    ELSE IF IsInstance(e, "AIServiceError")
    THEN HTTPException(IF e.retryable THEN 503 ELSE 500, e.message)
    ELSE HTTPException(500, GENERIC_500)

handle_ai_error(e) ==
    IF IsInstance(e, "AIRateLimitError") THEN HTTPException(429, e.message)
    ELSE IF IsInstance(e, "AITimeoutError") THEN HTTPException(504, e.message)
    ELSE IF IsInstance(e, "AIConfigError") THEN HTTPException(503, GENERIC_503)
    ELSE IF IsInstance(e, "AIServiceError")
    THEN HTTPException(IF e.retryable THEN 503 ELSE 500, e.message)
    ELSE HTTPException(500, GENERIC_500)

\* an endpoint that calls again after a retryable failure
AfterCallRetry(r) == IF ~r.ok /\ r.error.retryable THEN "endpoint" ELSE "done"

\* the endpoint's step after the awaited call: the reply is returned, or
\* handle_ai_error's exception is raised; either way the request is over
AfterCall(r) == "done"

(***************************************************************************)
(* models/ai.py: the body of a mode request                                *)
(***************************************************************************)
\* a field of the JSON body: absent, or a string of the given length
Field(present, length) == [present |-> present, length |-> length]
Missing == Field(FALSE, 0)
Str(length) == Field(TRUE, length)

Body(draft_text, recipient, intent) ==
    [draft_text |-> draft_text, recipient |-> recipient, intent |-> intent]

\* a request without a JSON body (GET /health)
NoBody == Body(Missing, Missing, Missing)

MAX_DRAFT_TEXT == 10000
MAX_RECIPIENT == 100
MAX_INTENT == 500

\* Field(..., min_length=1, max_length=n)
ValidField(f, max_length) ==
    f.present /\ f.length >= 1 /\ f.length <= max_length

\* BaseAIRequest that does not enforce max_length
BaseAIRequestNoMax(body) ==
    /\ body.draft_text.present /\ body.draft_text.length >= 1
    /\ body.recipient.present /\ body.recipient.length >= 1
    /\ body.intent.present /\ body.intent.length >= 1

\* pydantic's validation of BaseAIRequest
BaseAIRequest(body) ==
    /\ ValidField(body.draft_text, MAX_DRAFT_TEXT)
    /\ ValidField(body.recipient, MAX_RECIPIENT)
    /\ ValidField(body.intent, MAX_INTENT)

\* the sample request of the test suite
SampleBody == Body(Str(36), Str(6), Str(16))

\* the body of the requests explored by Spec
Bodies == { SampleBody }

\* the bodies around every constraint of BaseAIRequest, explored by SpecBody
AllBodies ==
    Bodies \cup
    { Body(Missing, Str(6), Str(7)),
      Body(Str(0), Str(6), Str(7)),
      Body(Str(1), Str(1), Str(1)),
      Body(Str(MAX_DRAFT_TEXT), Str(MAX_RECIPIENT), Str(MAX_INTENT)),
      Body(Str(MAX_DRAFT_TEXT + 1), Str(6), Str(7)),
      Body(Str(11), Missing, Str(7)),
      Body(Str(11), Str(0), Str(7)),
      Body(Str(11), Str(MAX_RECIPIENT + 1), Str(7)),
      Body(Str(11), Str(6), Missing),
      Body(Str(11), Str(6), Str(0)),
      Body(Str(11), Str(6), Str(MAX_INTENT + 1)) }

BodiesOf(path) == IF StartsWith(path, AI_PREFIX) THEN Bodies ELSE {NoBody}

(***************************************************************************)
(* prompts/base.py: the templates.  A string whose parts are known only    *)
(* as request fields is kept as its pieces: the literal text between the   *)
(* placeholders, and one piece per placeholder.                            *)
(***************************************************************************)
Lit(s) == [key |-> "", lit |-> s, value |-> Missing]
Arg(k) == [key |-> k, lit |-> "", value |-> Missing]        \* {k}
Val(f) == [key |-> "", lit |-> "", value |-> f]

SYSTEM_PROMPT ==
    << Lit("You are an articulation assistant for The Unsaid, a tool "
            \o "that helps people express important things to people they "
            \o "care about.\n"
            \o "\n"
            \o "CRITICAL RULES:\n"
            \o "1. NEVER generate complete messages. Only offer "
            \o "refinements, alternatives, or questions.\n"
            \o "2. ALWAYS provide 2-3 options, never a single \"right\" "
            \o "answer.\n"
            \o "3. ALWAYS affirm that the user's original wording is valid.\n"
            \o "4. Maintain emotional sensitivity - these are vulnerable "
            \o "moments.\n"
            \o "5. Prioritize the user's authentic voice over \"better\" "
            \o "phrasing.\n"
            \o "6. Keep responses concise - under 150 words total.\n"
            \o "\n"
            \o "The user is writing to: "),
       Arg("recipient"),
       Lit("\n"
            \o "Their intent is: "),
       Arg("intent"),
       Lit("\n") >>

CLARIFY_PROMPT ==
    << Lit("The user has written:\n"
            \o "\""),
       Arg("draft_text"),
       Lit("\"\n"
            \o "\n"
            \o "They want to say this more clearly. Offer 2-3 simpler "
            \o "phrasings that preserve the exact emotional meaning. Don't "
            \o "change what they're saying - just make it clearer.\n"
            \o "\n"
            \o "Format:\n"
            \o "Option 1: [clearer version]\n"
            \o "Why: [brief explanation]\n"
            \o "\n"
            \o "Option 2: [clearer version]\n"
            \o "Why: [brief explanation]\n"
            \o "\n"
            \o "Remember: Their original words are also valid.\n") >>

ALTERNATIVES_PROMPT ==
    << Lit("The user has written:\n"
            \o "\""),
       Arg("draft_text"),
       Lit("\"\n"
            \o "\n"
            \o "Offer 3 alternative ways to express the same sentiment with "
            \o "different emotional registers:\n"
            \o "1. A warmer, softer version\n"
            \o "2. A more direct version\n"
            \o "3. A version that leads with vulnerability\n"
            \o "\n"
            \o "Format each with the text and a brief note on when to use "
            \o "it.\n") >>

TONE_PROMPT ==
    << Lit("The user has written:\n"
            \o "\""),
       Arg("draft_text"),
       Lit("\"\n"
            \o "\n"
            \o "Provide 3 versions with adjusted tone:\n"
            \o "1. SOFTER: Gentler, more cushioned delivery\n"
            \o "2. WARMER: More affectionate, emotionally open\n"
            \o "3. DIRECT: More straightforward, less hedging\n"
            \o "\n"
            \o "Keep the core message identical. Only adjust the emotional "
            \o "packaging.\n") >>

EXPAND_PROMPT ==
    << Lit("The user has written:\n"
            \o "\""),
       Arg("draft_text"),
       Lit("\"\n"
            \o "\n"
            \o "Ask 2-3 questions that might help them go deeper or be more "
            \o "specific. These should be questions that unlock more of "
            \o "what they really want to say.\n"
            \o "\n"
            \o "Examples of good questions:\n"
            \o "- \"What specific moment made you realize this?\"\n"
            \o "- \"What do you hope changes after you say this?\"\n"
            \o "- \"What have you been afraid to include?\"\n"
            \o "\n"
            \o "Don't answer for them - just ask questions.\n") >>

OPENING_PROMPT ==
    << Lit("The user wants to write to "),
       Arg("recipient"),
       Lit(" about "),
       Arg("intent"),
       Lit(".\n"
            \o "\n"
            \o "Current draft (if any): \""),
       Arg("draft_text"),
       Lit("\"\n"
            \o "\n"
            \o "Suggest 3 different opening sentences that could begin this "
            \o "message:\n"
            \o "1. One that starts with a specific memory\n"
            \o "2. One that starts with how they're feeling right now\n"
            \o "3. One that starts with what they want the recipient to "
            \o "know\n"
            \o "\n"
            \o "Keep each under 25 words.\n") >>

\* template.format(**kwargs): every placeholder replaced by its argument
Format(template, kwargs) ==
    [i \in DOMAIN template |->
        IF template[i].key = "" THEN template[i]
        ELSE Val(kwargs[template[i].key])]

(***************************************************************************)
(* The five modes: routers/ai.py and OpenRouterService                     *)
(***************************************************************************)
MODES == {"clarify", "alternatives", "tone", "expand", "opening"}

\* app.include_router(ai.router, prefix="/api/ai") and @router.post("/<mode>")
RouteOf(mode) == AI_PREFIX \o "/" \o mode

ModeOf(path) == CHOOSE mode \in MODES : RouteOf(mode) = path

\* the prompt of each mode method: X_PROMPT.format(...)
Prompt(mode, draft_text, recipient, intent) ==
    CASE mode = "clarify" ->
             Format(CLARIFY_PROMPT, [draft_text |-> draft_text])
      [] mode = "alternatives" ->
             Format(ALTERNATIVES_PROMPT, [draft_text |-> draft_text])
      [] mode = "tone" ->
             Format(TONE_PROMPT, [draft_text |-> draft_text])
      [] mode = "expand" ->
             Format(EXPAND_PROMPT, [draft_text |-> draft_text])
      [] mode = "opening" ->
             Format(OPENING_PROMPT, [draft_text |-> draft_text,
                                     recipient |-> recipient, intent |-> intent])

\* client.post(..., timeout=30.0): seconds
timeout == 30

NoDeadline == -1

\* a POST without timeout (timeout=None): the wait is never cut off
NeverExpired(deadline, current_time) == FALSE

\* httpx's timer of the awaited POST has run out
Expired(deadline, current_time) == current_time >= deadline

\* _call_llm: the "messages" of the POST's JSON
Messages(user_prompt, recipient, intent) ==
    << [role |-> "system",
        content |-> Format(SYSTEM_PROMPT, [recipient |-> recipient, intent |-> intent])],
       [role |-> "user", content |-> user_prompt] >>

\* a tone endpoint that hands the target tone on, at the end of the user
\* prompt
AiServiceCallWithTone(mode, request) ==
    LET user_prompt == Prompt(mode, request.draft_text, request.recipient,
                              request.intent)
    IN  Messages(IF mode = "tone" /\ request.target_tone # None
                 THEN user_prompt \o <<Lit(request.target_tone)>>
                 ELSE user_prompt,
                 request.recipient, request.intent)

\* the endpoint's call "await ai_service.<mode>(draft_text=request.draft_text,
\* recipient=request.recipient, intent=request.intent)", up to the POST
AiServiceCall(mode, request) ==
    Messages(Prompt(mode, request.draft_text, request.recipient, request.intent),
             request.recipient, request.intent)

\* an expand method that marks its questions as no rewording of the draft
ModeReturnExpandInvalid(mode, response) ==
    AIResponse(_parse_options(response), mode # "expand")

\* the return of each mode method, after _call_llm returned:
\* return AIResponse(options=self._parse_options(response), original_valid=True)
ModeReturn(mode, response) ==
    CASE mode = "clarify" -> AIResponse(_parse_options(response), TRUE)
      [] mode = "alternatives" -> AIResponse(_parse_options(response), TRUE)
      [] mode = "tone" -> AIResponse(_parse_options(response), TRUE)
      [] mode = "expand" -> AIResponse(_parse_options(response), TRUE)
      [] mode = "opening" -> AIResponse(_parse_options(response), TRUE)

(***************************************************************************)
(* starlette: who answers an exception                                     *)
(***************************************************************************)
\* FastAPI's handler for RequestValidationError
VALIDATION_ERROR == HTTPException(422, "Unprocessable Entity")

\* ServerErrorMiddleware.error_response: the answer to an exception that
\* no handler took
INTERNAL_SERVER_ERROR == HTTPException(500, "Internal Server Error")

\* what the client receives for a finished request.  A response returned
\* through call_next is sent as it is, and so is an HTTPException raised by
\* a dependency or an endpoint: ExceptionMiddleware, below the middleware
\* of add_middleware, turns it into its response.  The HTTPException that
\* dispatch raises starts above ExceptionMiddleware, no handler takes it,
\* and ServerErrorMiddleware answers.
Sent(t) == IF t.at = "dispatch" THEN INTERNAL_SERVER_ERROR ELSE t.response

(***************************************************************************)
(* The request being handled                                               *)
(***************************************************************************)
NoResponse == HTTPException(0, None)
NoResult == AIResponse(<<>>, FALSE)

NewTask(path, client, authorization, body) ==
    [pc |-> "call_next", at |-> "dispatch",
     path |-> path, client |-> client, authorization |-> authorization,
     body |-> body,
     trace |-> <<>>, posts |-> 0, user_id |-> None,
     idp |-> NoIdp, prefs |-> NoPrefs, outcome |-> NoOutcome,
     messages |-> <<>>, deadline |-> NoDeadline, content |-> None,
     error |-> NoError, response |-> NoResponse, result |-> NoResult]

Idle == [NewTask("", NoClient, "", NoBody) EXCEPT !.pc = "idle"]

Authorizations == {"Bearer jwt", "bearer jwt"}

Init ==
    /\ limit \in 1..MaxLimit
    /\ supabase \in BOOLEAN
    /\ requests = << >>
    /\ now = 0
    /\ task = Idle
    /\ log = <<>>

(***************************************************************************)
(* RateLimitMiddleware.dispatch, up to the awaited call_next               *)
(***************************************************************************)
\* a dispatch that counts a request only once it was served: it admits
\* without recording
DispatchRecordsNothing(path, client, authorization, body) ==
    /\ task.pc \in {"idle", "done"}
    /\ UNCHANGED <<limit, supabase, now>>
    /\ LET t == NewTask(path, client, authorization, body) IN
       IF ~StartsWith(path, AI_PREFIX)
       THEN /\ task' = t
            /\ UNCHANGED <<requests, log>>
       ELSE LET client_ip == ClientIp(client)
                current_time == now
                cleaned == Clean(Lookup(requests, client_ip), current_time)
            IN  /\ Len(log) < MaxLog
                /\ requests' = Store(requests, client_ip, cleaned)
                /\ IF Len(cleaned) >= limit
                   THEN /\ task' = [t EXCEPT !.pc = "done",
                               !.response = HTTPException(429, RateLimitDetail(limit))]
                        /\ log' = Append(log, [client_ip |-> client_ip,
                               time |-> current_time, admitted |-> FALSE])
                   ELSE /\ task' = [t EXCEPT !.trace = <<"limiter">>]
                        /\ log' = Append(log, [client_ip |-> client_ip,
                               time |-> current_time, admitted |-> TRUE])

\* a dispatch that records the time of a request also when it rejects it
DispatchRecordsRejection(path, client, authorization, body) ==
    /\ task.pc \in {"idle", "done"}
    /\ UNCHANGED <<limit, supabase, now>>
    /\ LET t == NewTask(path, client, authorization, body) IN
       IF ~StartsWith(path, AI_PREFIX)
       THEN /\ task' = t
            /\ UNCHANGED <<requests, log>>
       ELSE LET client_ip == ClientIp(client)
                current_time == now
                cleaned == Clean(Lookup(requests, client_ip), current_time)
            IN  /\ Len(log) < MaxLog
                /\ requests' = Store(requests, client_ip,
                                     Append(cleaned, current_time))
                /\ IF Len(cleaned) >= limit
                   THEN /\ task' = [t EXCEPT !.pc = "done",
                               !.response = HTTPException(429, RateLimitDetail(limit))]
                        /\ log' = Append(log, [client_ip |-> client_ip,
                               time |-> current_time, admitted |-> FALSE])
                   ELSE /\ task' = [t EXCEPT !.trace = <<"limiter">>]
                        /\ log' = Append(log, [client_ip |-> client_ip,
                               time |-> current_time, admitted |-> TRUE])

dispatch(path, client, authorization, body) ==
    /\ task.pc \in {"idle", "done"}
    /\ UNCHANGED <<limit, supabase, now>>
    /\ LET t == NewTask(path, client, authorization, body) IN
       IF ~StartsWith(path, AI_PREFIX)
       THEN /\ task' = t
            /\ UNCHANGED <<requests, log>>
       ELSE LET client_ip == ClientIp(client)
                current_time == now
                cleaned == Clean(Lookup(requests, client_ip), current_time)
            IN  /\ Len(log) < MaxLog
                /\ IF Len(cleaned) >= limit
                   THEN /\ requests' = Store(requests, client_ip, cleaned)
                        /\ task' = [t EXCEPT !.pc = "done",
                               !.response = HTTPException(429, RateLimitDetail(limit))]
                        /\ log' = Append(log, [client_ip |-> client_ip,
                               time |-> current_time, admitted |-> FALSE])
                   ELSE /\ requests' = Store(requests, client_ip,
                                             Append(cleaned, current_time))
                        /\ task' = [t EXCEPT !.trace = <<"limiter">>]
                        /\ log' = Append(log, [client_ip |-> client_ip,
                               time |-> current_time, admitted |-> TRUE])

\* main.py: GET /health
health_check ==
    /\ task.pc = "call_next"
    /\ task.path = "/health"
    /\ task' = [task EXCEPT !.pc = "done", !.at = "health_check",
                            !.response = HTTPException(200, "healthy")]
    /\ UNCHANGED <<limit, supabase, requests, now, log>>

(***************************************************************************)
(* The dependencies of a mode endpoint, in the order of its signature      *)
(***************************************************************************)
DependsGetCurrentUser(idp) ==
    /\ task.pc = "call_next"
    /\ StartsWith(task.path, AI_PREFIX)
    /\ LET r == get_current_user(supabase, task.authorization, idp) IN
       task' = IF r.ok
               THEN [task EXCEPT !.pc = "verify_ai_consent",
                        !.at = "get_current_user", !.idp = idp,
                        !.user_id = r.value,
                        !.trace = Append(@, "token")]
               ELSE [task EXCEPT !.pc = "done", !.at = "get_current_user",
                        !.idp = IF supabase /\ StartsWith(task.authorization, "Bearer ")
                                THEN idp ELSE NoIdp,
                        !.response = r.exc]
    /\ UNCHANGED <<limit, supabase, requests, now, log>>

DependsVerifyAiConsent(idp, prefs) ==
    /\ task.pc = "verify_ai_consent"
    /\ LET r == verify_ai_consent(supabase, task.authorization, idp, prefs)
           user == get_current_user(supabase, task.authorization, idp)
       IN  task' = IF r.ok
                   THEN [task EXCEPT !.pc = "request_body",
                            !.at = "verify_ai_consent",
                            !.idp = idp, !.prefs = prefs,
                            !.trace = @ \o <<"token", "consent">>]
                   ELSE [task EXCEPT !.pc = "done", !.at = "verify_ai_consent",
                            !.idp = idp,
                            !.prefs = IF user.ok THEN prefs ELSE NoPrefs,
                            !.trace = IF user.ok THEN Append(@, "token") ELSE @,
                            !.response = r.exc]
    /\ UNCHANGED <<limit, supabase, requests, now, log>>

\* the body parameter "request: ClarifyRequest", validated once the
\* dependencies are solved; the endpoint is called only without errors
RequestBody ==
    /\ task.pc = "request_body"
    /\ task' = IF BaseAIRequest(task.body)
               THEN [task EXCEPT !.pc = "endpoint", !.at = "request_body"]
               ELSE [task EXCEPT !.pc = "done", !.at = "request_body",
                                 !.response = VALIDATION_ERROR]
    /\ UNCHANGED <<limit, supabase, requests, now, log>>

(***************************************************************************)
(* The mode endpoint: ai_service.clarify -> _call_llm                      *)
(***************************************************************************)
\* up to "await client.post(...)"
Post ==
    /\ task.pc = "endpoint"
    /\ task' = [task EXCEPT !.pc = "awaiting", !.at = "endpoint",
                            !.messages = AiServiceCall(ModeOf(task.path), task.body),
                            !.deadline = now + timeout,
                            !.posts = @ + 1, !.trace = Append(@, "post")]
    /\ UNCHANGED <<limit, supabase, requests, now, log>>

\* from the return of the awaited POST to the endpoint's response
Reply(outcome) ==
    /\ task.pc = "awaiting"
    /\ LET r == _call_llm(outcome) IN
       task' = IF r.ok
               THEN [task EXCEPT !.pc = "done", !.outcome = outcome,
                        !.deadline = NoDeadline,
                        !.content = r.content,
                        !.response = HTTPException(200, None),
                        !.result = ModeReturn(ModeOf(task.path), r.content)]
               ELSE [task EXCEPT !.pc = AfterCall(r), !.outcome = outcome,
                        !.deadline = NoDeadline,
                        !.error = r.error,
                        !.response = handle_ai_error(r.error)]
    /\ UNCHANGED <<limit, supabase, requests, now, log>>

Tick(d) ==
    /\ now + d <= MaxTime
    /\ now' = now + d
    /\ UNCHANGED <<limit, supabase, requests, task, log>>

Next ==
    \/ \E path \in Paths, client \in Clients, authorization \in Authorizations :
           \E body \in BodiesOf(path) : dispatch(path, client, authorization, body)
    \/ health_check
    \/ \E idp \in IdpOutcomes : DependsGetCurrentUser(idp)
    \/ \E idp \in IdpOutcomes, prefs \in PrefsOutcomes :
           DependsVerifyAiConsent(idp, prefs)
    \/ RequestBody
    \/ Post
    \/ \E outcome \in Outcomes : Reply(outcome)
    \/ \E d \in Ticks : Tick(d)

Spec == Init /\ [][Next]_vars

(***************************************************************************)
(* handle_ai_error on its own: the endpoint's except clause entered with   *)
(* any exception                                                           *)
(***************************************************************************)
ErrorMessages ==
    { "AI service rate limit exceeded. Please wait a moment.",
      "AI request took too long. Please try again.",
      "AI service authentication failed. Please contact support.",
      "AI service returned error: 404",
      "An unexpected error occurred. Please try again.",
      "OPENROUTER_API_KEY sk-or-v1 was rejected" }

Exceptions ==
    { AIRateLimitError(m) : m \in ErrorMessages }
    \cup { AITimeoutError(m) : m \in ErrorMessages }
    \cup { AIProviderError(m) : m \in ErrorMessages }
    \cup { AIConfigError(m) : m \in ErrorMessages }
    \cup { AIParsingError(m) : m \in ErrorMessages }
    \cup { AIServiceError(m, "unknown", r) : m \in ErrorMessages, r \in BOOLEAN }
    \cup { OtherException(c, m) :
               c \in {"ValueError", "KeyError", "RuntimeError"}, m \in ErrorMessages }

InitErr ==
    /\ limit = 1
    /\ supabase = TRUE
    /\ requests = << >>
    /\ now = 0
    /\ log = <<>>
    /\ \E e \in Exceptions :
           task = [NewTask("/api/ai/clarify", "10.0.0.1", "Bearer jwt", SampleBody)
                       EXCEPT !.pc = "except", !.at = "endpoint", !.error = e]

\* except Exception as e: raise handle_ai_error(e)
Except ==
    /\ task.pc = "except"
    /\ task' = [task EXCEPT !.pc = "done",
                            !.response = handle_ai_error(task.error)]
    /\ UNCHANGED <<limit, supabase, requests, now, log>>

NextErr == Except

SpecErr == InitErr /\ [][NextErr]_vars

(***************************************************************************)
(* The clarify endpoint under every kind of body                           *)
(***************************************************************************)
InitBody ==
    /\ limit \in 1..MaxLimit
    /\ supabase \in BOOLEAN
    /\ requests = << >>
    /\ now = 0
    /\ task = Idle
    /\ log = <<>>

NextBody ==
    \/ \E authorization \in Authorizations, body \in AllBodies :
           dispatch("/api/ai/clarify", "10.0.0.1", authorization, body)
    \/ \E idp \in IdpOutcomes : DependsGetCurrentUser(idp)
    \/ \E idp \in IdpOutcomes, prefs \in PrefsOutcomes :
           DependsVerifyAiConsent(idp, prefs)
    \/ RequestBody
    \/ Post
    \/ \E outcome \in {Response(200, GoodPayload), Response(429, ErrorPayload)} :
           Reply(outcome)

SpecBody == InitBody /\ [][NextBody]_vars

(***************************************************************************)
(* The five mode endpoints, with the clock of the awaited POST             *)
(***************************************************************************)
\* ToneRequest: BaseAIRequest and target_tone: str | None = None
ToneRequest(body, target_tone) ==
    [draft_text |-> body.draft_text, recipient |-> body.recipient,
     intent |-> body.intent, target_tone |-> target_tone]

\* "Desired tone (softer, warmer, direct)", or none
TargetTones == {None, "softer", "warmer", "direct"}

\* the JSON bodies sent to a mode endpoint: a model that has no target_tone
\* ignores the key
ModeBodies(mode) ==
    { ToneRequest(b, t) :
          b \in {SampleBody, Body(Str(11), Str(6), Str(MAX_INTENT + 1))},
          t \in IF mode = "tone" THEN TargetTones ELSE {None, "softer"} }

\* replies of the provider: the reply of test_clarify_success, a reply in
\* the "Option n:" format of CLARIFY_PROMPT, one of four sections, and prose
ModeReplies ==
    { "\n    1. \"I felt hurt by those words\"\n    Why: This is clearer\n\n"
          \o "    2. \"When you said that, I felt pain\"\n    Why: Focuses on impact\n    ",
      "Option 1: I miss you\nWhy: shorter\n\nOption 2: I have missed you",
      "1. A\n2. B\n3. C\n4. D",
      "What specific moment made you realize this?" }

ModeOutcomes ==
    { Response(200, Payload(TRUE, TRUE, <<Choice("object", text)>>)) :
          text \in ModeReplies }
    \cup { Response(200, Payload(TRUE, TRUE, <<>>)), Response(429, ErrorPayload),
           Response(500, NoPayload), Raises("ConnectError", 0) }

InitModes ==
    /\ limit = MaxLimit
    /\ supabase = TRUE
    /\ requests = << >>
    /\ now = 0
    /\ task = Idle
    /\ log = <<>>

\* the awaited POST returns or raises before the timer runs out
Answered(outcome) ==
    /\ task.pc = "awaiting"
    /\ ~Expired(task.deadline, now)
    /\ Reply(outcome)

\* the timer runs out: the awaited POST raises httpx.TimeoutException
TimedOut ==
    /\ task.pc = "awaiting"
    /\ Expired(task.deadline, now)
    /\ Reply(Raises("TimeoutException", 0))

\* time passes while the POST is awaited
Wait(d) ==
    /\ task.pc = "awaiting"
    /\ now + d <= task.deadline
    /\ now' = now + d
    /\ UNCHANGED <<limit, supabase, requests, task, log>>

NextModes ==
    \/ \E mode \in MODES : \E body \in ModeBodies(mode) :
           dispatch(RouteOf(mode), "10.0.0.1", "Bearer jwt", body)
    \/ \E idp \in IdpOutcomes : DependsGetCurrentUser(idp)
    \/ \E idp \in IdpOutcomes, prefs \in PrefsOutcomes :
           DependsVerifyAiConsent(idp, prefs)
    \/ RequestBody
    \/ Post
    \/ \E outcome \in ModeOutcomes : Answered(outcome)
    \/ \E d \in {timeout \div 2} : Wait(d)
    \/ TimedOut

\* the event loop runs a request that can go on, time passes while a POST
\* is awaited, and httpx's timer fires; the provider need never answer
SpecModes ==
    /\ InitModes
    /\ [][NextModes]_vars
    /\ WF_vars(Post)
    /\ WF_vars(\E d \in {timeout \div 2} : Wait(d))
    /\ WF_vars(TimedOut)

(***************************************************************************)
(* The tone endpoint on a pair of requests that differ in target_tone      *)
(* only.  Here task holds the two requests, both past the limiter, the     *)
(* dependencies and the validation of the body.                            *)
(***************************************************************************)
InitTone ==
    /\ limit = MaxLimit
    /\ supabase = TRUE
    /\ requests = [c \in {"10.0.0.1"} |-> <<0, 0>>]
    /\ now = 0
    /\ log = << [client_ip |-> "10.0.0.1", time |-> 0, admitted |-> TRUE],
                [client_ip |-> "10.0.0.1", time |-> 0, admitted |-> TRUE] >>
    /\ \E b \in {SampleBody, Body(Str(1), Str(MAX_RECIPIENT), Str(7))} :
       \E tones \in [1..2 -> TargetTones] :
           task = [i \in 1..2 |->
                      [NewTask(RouteOf("tone"), "10.0.0.1", "Bearer jwt",
                               ToneRequest(b, tones[i]))
                          EXCEPT !.pc = "endpoint", !.at = "request_body",
                                 !.trace = <<"limiter", "token", "token", "consent">>]]

\* routers/ai.py tone, up to the awaited POST of _call_llm
tone(i) ==
    /\ task[i].pc = "endpoint"
    /\ task' = [task EXCEPT ![i] =
                   [@ EXCEPT !.pc = "awaiting", !.at = "endpoint",
                             !.messages = AiServiceCall(ModeOf(task[i].path),
                                                       task[i].body),
                             !.deadline = now + timeout,
                             !.posts = @ + 1, !.trace = Append(@, "post")]]
    /\ UNCHANGED <<limit, supabase, requests, now, log>>

\* tone, from the return of the awaited POST to the endpoint's response
tone_return(i, outcome) ==
    /\ task[i].pc = "awaiting"
    /\ LET r == _call_llm(outcome) IN
       task' = [task EXCEPT ![i] =
                   IF r.ok
                   THEN [@ EXCEPT !.pc = "done", !.outcome = outcome,
                            !.deadline = NoDeadline,
                            !.content = r.content,
                            !.response = HTTPException(200, None),
                            !.result = ModeReturn(ModeOf(task[i].path), r.content)]
                   ELSE [@ EXCEPT !.pc = AfterCall(r), !.outcome = outcome,
                            !.deadline = NoDeadline,
                            !.error = r.error,
                            !.response = handle_ai_error(r.error)]]
    /\ UNCHANGED <<limit, supabase, requests, now, log>>

NextTone ==
    \/ \E i \in 1..2 : tone(i)
    \/ \E i \in 1..2 : \E outcome \in ModeOutcomes : tone_return(i, outcome)

SpecTone == InitTone /\ [][NextTone]_vars

(***************************************************************************)
(* RateLimitMiddleware.dispatch line by line, for requests handled         *)
(* concurrently on one event loop.  Here task holds one request per        *)
(* asyncio task; a task runs alone from one await to the next.             *)
(***************************************************************************)
Tasks == 1..MaxTasks

\* a dispatch that awaits (a shared store, say) between its check and its
\* append
SuspensionPointsInDispatch == {"idle", "record", "call_next", "done"}

\* where a task can be when another one runs: not started, finished, or
\* at dispatch's only await, "await call_next(request)"
SuspensionPoints == {"idle", "call_next", "done"}

\* the event loop runs task i: every other task is at a suspension point
Runs(i) == \A j \in Tasks \ {i} : task[j].pc \in SuspensionPoints

ConcTask(pc, client_ip, current_time, admitted) ==
    [pc |-> pc, client_ip |-> client_ip, current_time |-> current_time,
     admitted |-> admitted]

InitConc ==
    /\ limit \in 1..MaxLimit
    /\ supabase = TRUE
    /\ requests = << >>
    /\ now = 0
    /\ task = [i \in Tasks |-> ConcTask("idle", "unknown", 0, FALSE)]
    /\ log = <<>>

\* lines 25-29: an AI request arrives; its identifier
dispatch_client_ip(i, client) ==
    /\ Runs(i)
    /\ task[i].pc \in {"idle", "done"}
    /\ Len(log) + Cardinality({j \in Tasks : task[j].pc \in {"clean", "check", "record"}})
           < MaxLog
    /\ task' = [task EXCEPT ![i] = ConcTask("clean", ClientIp(client), 0, FALSE)]
    /\ UNCHANGED <<limit, supabase, requests, now, log>>

\* lines 32-36: current_time = time.time(); the eviction
dispatch_clean(i) ==
    /\ Runs(i)
    /\ task[i].pc = "clean"
    /\ requests' = Store(requests, task[i].client_ip,
                         Clean(Lookup(requests, task[i].client_ip), now))
    /\ task' = [task EXCEPT ![i].pc = "check", ![i].current_time = now]
    /\ UNCHANGED <<limit, supabase, now, log>>

\* lines 39-43: the check; a rejection ends the request
dispatch_check(i) ==
    /\ Runs(i)
    /\ task[i].pc = "check"
    /\ IF Len(Lookup(requests, task[i].client_ip)) >= limit
       THEN /\ task' = [task EXCEPT ![i].pc = "done"]
            /\ log' = Append(log, [client_ip |-> task[i].client_ip,
                                   time |-> task[i].current_time,
                                   admitted |-> FALSE])
       ELSE /\ task' = [task EXCEPT ![i].pc = "record"]
            /\ log' = log
    /\ UNCHANGED <<limit, supabase, requests, now>>

\* line 46: the append; then the await of line 48 begins
dispatch_record(i) ==
    /\ Runs(i)
    /\ task[i].pc = "record"
    /\ requests' = Store(requests, task[i].client_ip,
                         Append(Lookup(requests, task[i].client_ip),
                                task[i].current_time))
    /\ task' = [task EXCEPT ![i].pc = "call_next", ![i].admitted = TRUE]
    /\ log' = Append(log, [client_ip |-> task[i].client_ip,
                           time |-> task[i].current_time, admitted |-> TRUE])
    /\ UNCHANGED <<limit, supabase, now>>

\* line 48: the awaited call_next returns the downstream response
dispatch_call_next(i) ==
    /\ Runs(i)
    /\ task[i].pc = "call_next"
    /\ task' = [task EXCEPT ![i].pc = "done"]
    /\ UNCHANGED <<limit, supabase, requests, now, log>>

\* time passes while every task waits; the lines between two awaits take
\* no time
Elapse(d) ==
    /\ \A i \in Tasks : task[i].pc \in SuspensionPoints
    /\ Tick(d)

NextConc ==
    \/ \E i \in Tasks : dispatch_client_ip(i, "10.0.0.1")
    \/ \E i \in Tasks : dispatch_clean(i)
    \/ \E i \in Tasks : dispatch_check(i)
    \/ \E i \in Tasks : dispatch_record(i)
    \/ \E i \in Tasks : dispatch_call_next(i)
    \/ \E d \in Ticks : Elapse(d)

SpecConc == InitConc /\ [][NextConc]_vars

(***************************************************************************)
(* _parse_options on its own: a mode method of OpenRouterService after     *)
(* _call_llm returned the reply's text                                     *)
(***************************************************************************)
\* the lines a reply is made of
ReplyLines ==
    { "1. Foo", "2. Baz", "Option 3: Qux", "4. Extra",
      "Why: bar", "wHY:  so ", "1." }

X10 == "abcdefghij"
X50 == X10 \o X10 \o X10 \o X10 \o X10
X500 == X50 \o X50 \o X50 \o X50 \o X50 \o X50 \o X50 \o X50 \o X50 \o X50

\* "\n".join(lines)
RECURSIVE Join(_)
Join(lines) ==
    IF lines = <<>> THEN ""
    ELSE IF Len(lines) = 1 THEN lines[1]
    ELSE lines[1] \o "\n" \o Join(Tail(lines))

\* replies of up to MaxLines lines, the replies of the test suite's shape
\* (indented, blank lines between sections) and replies around 500 chars
ReplyTexts ==
    { Join(ls) : ls \in UNION { [1..n -> ReplyLines] : n \in 0..MaxLines } }
    \cup { REPLY_TEXT,
           "This is not in the expected format at all.",
           "  hi ", " ", "\n", "\n  plain\n", "1.\nFoo", "Option 1:", "1. :",
           "1. Say: hi", "1.5 hours", "Option 1: One\nWhy: it is clearer",
           "\n    1. First\n    Why: reason\n\n    2. Second\n    Why: reason\n    ",
           "1. Foo\nWhy:\n2. Baz", "1. Foo\nWhy: bar\nWhy:",
           "1. Foo\n2. Baz\nOption 3: Qux\n4. Extra\nWhy: bar",
           "1. A\nWhy: a\n2. B\nWhy: b\n3. C\nWhy: c\n4. D\nWhy: d\n5. E\nWhy: e",
           X500, X500 \o "Z", " " \o X500 \o "\nZ", X500 \o "\n1. Late" }

InitParse ==
    /\ limit = 1
    /\ supabase = TRUE
    /\ requests = << >>
    /\ now = 0
    /\ log = <<>>
    /\ \E text \in ReplyTexts :
           task = [NewTask("/api/ai/clarify", "10.0.0.1", "Bearer jwt", SampleBody)
                       EXCEPT !.pc = "parse", !.at = "endpoint", !.posts = 1,
                              !.content = text]

\* return AIResponse(options=self._parse_options(response), original_valid=True)
Parse ==
    /\ task.pc = "parse"
    /\ task' = [task EXCEPT !.pc = "done",
                            !.response = HTTPException(200, None),
                            !.result = ModeReturn(ModeOf(task.path), task.content)]
    /\ UNCHANGED <<limit, supabase, requests, now, log>>

NextParse == Parse

SpecParse == InitParse /\ [][NextParse]_vars

(***************************************************************************)
(* Properties                                                              *)
(***************************************************************************)
Identifiers == {ClientIp(c) : c \in Clients}

\* the limiter's decisions about one identifier, in order
ClientLog(c) == SelectSeq(log, LAMBDA e : e.client_ip = c)

\* the admitted requests of an identifier that lie in the trailing window
AdmittedInWindow(c) ==
    {i \in DOMAIN log : /\ log[i].client_ip = c
                        /\ log[i].admitted
                        /\ now - log[i].time < Window}

Consented(prefs) ==
    ~prefs.raises /\ prefs.has_data /\ <<"ai_enabled", "True">> \in prefs.data

\* C1: a POST to the provider is made for a request only after the request
\* passed the rate limiter, then token verification, then the consent
\* check; a request that failed one of the gates has made no POST.
C1_ProviderCallOnlyAfterGates ==
    /\ task.posts > 0 =>
          /\ \A i \in DOMAIN task.trace : task.trace[i] = "post" =>
                \E a, b, c \in 1..(i - 1) :
                    /\ a < b /\ b < c
                    /\ task.trace[a] = "limiter"
                    /\ task.trace[b] = "token"
                    /\ task.trace[c] = "consent"
          /\ log # <<>>
          /\ log[Len(log)].admitted
          /\ log[Len(log)].client_ip = ClientIp(task.client)
          /\ supabase
          /\ StartsWith(task.authorization, "Bearer ")
          /\ task.idp.kind = "user"
          /\ Consented(task.prefs)
    /\ (task.pc = "done"
           /\ task.at \in {"dispatch", "get_current_user", "verify_ai_consent"})
          => task.posts = 0 /\ ~(\E i \in DOMAIN task.trace : task.trace[i] = "post")

C1_Witness ==
    /\ task.pc = "awaiting"
    /\ task.posts = 1
    /\ task.trace = <<"limiter", "token", "token", "consent", "post">>

\* C2: for every identifier the number of admitted AI requests whose
\* timestamps lie in the trailing window (age < Window, the test dispatch
\* evicts by) never exceeds limit, and the stored list never holds more
\* than limit entries.
C2_AtMostLimitInWindow ==
    \A c \in Identifiers :
        /\ Cardinality(AdmittedInWindow(c)) <= limit
        /\ Len(Lookup(requests, c)) <= limit

C2_Witness ==
    \E c \in DOMAIN requests :
        /\ limit = 2
        /\ Len(requests[c]) = limit
        /\ Cardinality(AdmittedInWindow(c)) = limit
        /\ \E i \in DOMAIN log :
               log[i].client_ip = c /\ log[i].admitted /\ now - log[i].time >= Window

\* C3: from an empty history, the first limit requests of an identifier
\* inside one window are admitted and the next one inside it is rejected;
\* a request arriving once the window has elapsed since every earlier
\* admission is admitted.
C3_AdmitRejectAdmit ==
    \A c \in Identifiers :
        LET L == ClientLog(c) IN
        \A k \in DOMAIN L :
            /\ (k <= limit /\ L[k].time - L[1].time < Window) => L[k].admitted
            /\ (k = limit + 1 /\ L[k].time - L[1].time < Window) => ~L[k].admitted
            /\ (\A j \in 1..(k - 1) :
                    L[j].admitted => L[k].time - L[j].time >= Window)
                   => L[k].admitted

C3_Witness ==
    \E c \in Identifiers :
        LET L == ClientLog(c) IN
        /\ limit = 2
        /\ Len(L) = 4
        /\ L[1].admitted /\ L[2].admitted /\ ~L[3].admitted /\ L[4].admitted
        /\ L[3].time - L[1].time < Window
        /\ L[4].time - L[2].time >= Window

HasPrefix == StartsWith(task.authorization, "Bearer ")

\* C4 as stated: get_current_user fails with 401 whenever the Authorization
\* value lacks the "Bearer " prefix.
C4_MissingPrefixIs401 ==
    (task.pc = "done" /\ task.at = "get_current_user" /\ ~HasPrefix)
        => task.response.status_code = 401

\* C4 amended: with the identity-provider client configured,
\* get_current_user fails with 401 when the prefix is missing, when the
\* provider returns no user and when it raises; without the client it
\* fails with 500 whatever the header; it returns the provider's user id
\* only when verification succeeded.
C4_Authenticate ==
    /\ task.at = "get_current_user" =>
          /\ ~supabase =>
                task.pc = "done" /\ task.response.status_code = 500
          /\ (supabase /\ ~HasPrefix) =>
                task.pc = "done" /\ task.response.status_code = 401
          /\ (supabase /\ HasPrefix /\ task.idp.kind \in {"no_user", "raises"}) =>
                task.pc = "done" /\ task.response.status_code = 401
          /\ task.pc # "done" =>
                /\ supabase /\ HasPrefix
                /\ task.idp.kind = "user"
                /\ task.user_id = task.idp.id
    /\ (task.at = "verify_ai_consent" /\ task.idp.kind \in {"no_user", "raises"}) =>
          task.pc = "done" /\ task.response.status_code = 401

C4_Witness ==
    /\ supabase
    /\ task.pc = "done" /\ task.at = "get_current_user"
    /\ task.idp.kind = "no_user"
    /\ task.response.status_code = 401

\* C5: for a verified user verify_ai_consent passes only when the lookup
\* returns a record whose ai_enabled is true; an absent record, a failed
\* lookup and a false flag are all rejected with the same 403 whose message
\* contains "consent".
C5_ConsentIsOptIn ==
    (task.at = "verify_ai_consent" /\ task.idp.kind = "user") =>
        /\ task.pc # "done" <=> Consented(task.prefs)
        /\ task.pc = "done" =>
              /\ task.response.status_code = 403
              /\ Contains(Lower(task.response.detail), "consent")
              /\ task.response = HTTPException(403,
                     "AI features require consent. Please enable AI in settings.")

C5_Witness ==
    /\ task.at = "verify_ai_consent" /\ task.idp.kind = "user"
    /\ task.pc = "done"
    /\ task.prefs.raises
    /\ task.response.status_code = 403

Kind(e) == IF e.cls \in AIServiceClasses THEN e.error_type ELSE "unclassified"

\* C6 as stated: RateLimit -> 429, Timeout -> 504, ConfigError -> 503 with
\* the generic message, ProviderError -> 503 if retryable else 500,
\* Unknown -> 500 with the generic message, an unclassified exception ->
\* 500 with the generic message.
C6_UnknownIs500 ==
    task.pc = "done" =>
        LET e == task.error
            r == task.response
        IN  /\ Kind(e) = "rate_limit" => r.status_code = 429
            /\ Kind(e) = "timeout" => r.status_code = 504
            /\ Kind(e) = "config_error" =>
                  r = HTTPException(503, "AI service is temporarily unavailable.")
            /\ Kind(e) = "provider_error" =>
                  r.status_code = IF e.retryable THEN 503 ELSE 500
            /\ Kind(e) \in {"unknown", "unclassified"} =>
                  r = HTTPException(500,
                          "An unexpected error occurred. Please try again.")

\* C6 amended: RateLimit -> 429, Timeout -> 504, ConfigError -> 503 with the
\* generic message; every other classified error (ProviderError,
\* ParsingError, Unknown) -> 503 if retryable else 500 with the error's own
\* message; only an unclassified exception -> 500 with the generic message.
C6_ErrorMapping ==
    task.pc = "done" =>
        LET e == task.error
            r == task.response
        IN  /\ Kind(e) = "rate_limit" => r = HTTPException(429, e.message)
            /\ Kind(e) = "timeout" => r = HTTPException(504, e.message)
            /\ Kind(e) = "config_error" =>
                  r = HTTPException(503, "AI service is temporarily unavailable.")
            /\ Kind(e) \in {"provider_error", "parsing_error", "unknown"} =>
                  r = HTTPException(IF e.retryable THEN 503 ELSE 500, e.message)
            /\ Kind(e) = "unclassified" =>
                  r = HTTPException(500,
                          "An unexpected error occurred. Please try again.")

C6_Witness ==
    /\ task.pc = "done"
    /\ Kind(task.error) = "unknown" /\ task.error.retryable
    /\ task.response.status_code = 503

\* C7: the provider's status is classified by the first matching rule of
\* 429 -> RateLimit, 401 -> ConfigError, 402 -> ProviderError,
\* >= 500 -> ProviderError, other non-success -> ProviderError whose message
\* embeds the status; only a success status reaches payload validation.
C7_StatusClassification ==
    (task.pc = "done" /\ task.outcome.kind = "response") =>
        LET s == task.outcome.status_code
            e == task.error
        IN  /\ s = 429 => e.cls = "AIRateLimitError" /\ e.error_type = "rate_limit"
            /\ s = 401 => e.cls = "AIConfigError" /\ e.error_type = "config_error"
            /\ s = 402 =>
                  e = AIProviderError(
                          "AI service payment required. Please contact support.")
            /\ s >= 500 =>
                  e = AIProviderError(
                          "AI service is experiencing issues. Please try again later.")
            /\ (s \notin {429, 401, 402} /\ s < 500 /\ ~(200 <= s /\ s <= 299)) =>
                  /\ e.cls = "AIProviderError" /\ e.error_type = "provider_error"
                  /\ Contains(e.message, ToString(s))
            /\ (e = NoError \/ e.error_type = "parsing_error")
                  => (200 <= s /\ s <= 299)
            /\ (200 <= s /\ s <= 299)
                  => (e = NoError \/ e.error_type \in {"parsing_error", "unknown"})

C7_Witness ==
    /\ task.pc = "done" /\ task.outcome.kind = "response"
    /\ task.outcome.status_code = 404
    /\ task.error.message = "AI service returned error: 404"

\* C8: every failure of _call_llm is an AIServiceError: a timeout becomes
\* Timeout (retryable), a connection failure ProviderError (retryable), any
\* other unexpected exception Unknown (retryable) with a fixed message.
C8_EveryFailureClassified ==
    (task.pc = "done" /\ task.at = "endpoint") =>
        LET o == task.outcome
            e == task.error
        IN  /\ (o.kind = "raises" /\ o.exc = "TimeoutException") =>
                  /\ e.cls = "AITimeoutError" /\ e.error_type = "timeout"
                  /\ e.retryable
            /\ (o.kind = "raises" /\ o.exc = "ConnectError") =>
                  /\ e.cls = "AIProviderError" /\ e.error_type = "provider_error"
                  /\ e.retryable
            /\ (o.kind = "raises" /\ o.exc \notin
                    {"TimeoutException", "ConnectError", "HTTPStatusError"}) =>
                  e = [cls |-> "AIServiceError",
                       message |-> "An unexpected error occurred. Please try again.",
                       error_type |-> "unknown", retryable |-> TRUE]
            /\ task.response.status_code # 200 =>
                  /\ e.cls \in AIServiceClasses
                  /\ e.error_type \in {"rate_limit", "timeout", "provider_error",
                                       "config_error", "parsing_error", "unknown"}

C8_Witness ==
    /\ task.pc = "done" /\ task.at = "endpoint"
    /\ task.outcome.kind = "raises" /\ task.outcome.exc = "ReadError"
    /\ task.error.error_type = "unknown"

\* C9: through _call_llm and handle_ai_error, a provider status 429 gives
\* transport 429, a provider status 401 gives 503 with the generic message
\* and not the error's own, and a provider timeout gives 504.
C9_EndToEndStatus ==
    (task.pc = "done" /\ task.at = "endpoint") =>
        LET o == task.outcome
            r == task.response
        IN  /\ (o.kind = "response" /\ o.status_code = 429) => r.status_code = 429
            /\ (o.kind = "response" /\ o.status_code = 401) =>
                  /\ r.status_code = 503
                  /\ r.detail = "AI service is temporarily unavailable."
                  /\ r.detail # task.error.message
            /\ (o.kind = "raises" /\ o.exc = "TimeoutException") =>
                  r.status_code = 504

C9_Witness ==
    /\ task.pc = "done" /\ task.at = "endpoint"
    /\ task.outcome.kind = "response" /\ task.outcome.status_code = 401
    /\ task.response.status_code = 503

\* C10: a request causes at most one POST to the provider; after a
\* failure, retryable or not, the call is not sent again.
C10_AtMostOnePost ==
    /\ task.posts <= 1
    /\ (task.pc = "done" /\ task.at = "endpoint") => task.posts = 1
    /\ task.error # NoError => task.pc = "done"

C10_Witness ==
    /\ task.pc = "done" /\ task.at = "endpoint"
    /\ task.error # NoError /\ task.error.retryable
    /\ task.posts = 1

(***************************************************************************)
(* Properties of the parser, over SpecParse                                *)
(***************************************************************************)
\* the lines the loop of _parse_options looks at
SeenLines(text) ==
    LET L == SplitLines(Strip(text)) IN [i \in DOMAIN L |-> Strip(L[i])]

IsWhy(line) == Len(line) >= 4 /\ Lower(SubSeq(line, 1, 4)) = "why:"

\* the k-th smallest element of a set of numbers
Nth(S, k) == CHOOSE i \in S : Cardinality({j \in S : j < i}) = k - 1

Min(a, b) == IF a < b THEN a ELSE b

Max(S) == CHOOSE i \in S : \A j \in S : j <= i

LabelLines(lines) == {i \in DOMAIN lines : IsLabel(lines[i])}

\* the label lines that carry a text after the label
TextLabelLines(lines) ==
    {i \in DOMAIN lines : IsLabel(lines[i]) /\ LabelText(lines[i]) # ""}

\* C11: _parse_options returns for every text, the empty one included, a
\* list of at least one and at most three options.
C11_ParseTotal ==
    task.pc = "done" =>
        /\ Len(task.result.options) >= 1
        /\ Len(task.result.options) <= 3
        /\ \A k \in DOMAIN task.result.options :
               DOMAIN task.result.options[k] = {"text", "why"}

C11_Witness ==
    /\ task.pc = "done"
    /\ task.content = ""
    /\ Len(task.result.options) = 1

\* C12 as stated: for a text with label lines, the result holds one option
\* per label line, in the order of the label lines, capped at three.
C12_OnePerLabelLine ==
    task.pc = "done" =>
        LET lines == SeenLines(task.content)
            S == LabelLines(lines)
            options == task.result.options
        IN  S # {} =>
                /\ Len(options) = Min(Cardinality(S), 3)
                /\ \A k \in DOMAIN options :
                       options[k].text = LabelText(lines[Nth(S, k)])

\* C12 amended: for a text in which at least one label line carries a text
\* after its label, the result holds one option per such label line, in
\* the order of those lines, capped at three; a label line with nothing
\* after the label yields no option.
C12_OnePerLabelLineWithText ==
    task.pc = "done" =>
        LET lines == SeenLines(task.content)
            S == TextLabelLines(lines)
            options == task.result.options
        IN  S # {} =>
                /\ Len(options) = Min(Cardinality(S), 3)
                /\ \A k \in DOMAIN options :
                       options[k].text = LabelText(lines[Nth(S, k)])

C12_Witness ==
    /\ task.pc = "done"
    /\ task.content = "2. Baz\n1. Foo\nOption 3: Qux\n2. Baz"
    /\ Len(task.result.options) = 3
    /\ task.result.options[1].text = "Baz"
    /\ task.result.options[2].text = "Foo"
    /\ task.result.options[3].text = "Qux"

\* C13: when no line of the text is a label line, the result is exactly
\* one option whose text is the first 500 characters of the text as given
\* and whose why is "AI suggestion".
C13_FallbackIsRawPrefix ==
    (task.pc = "done" /\ LabelLines(SeenLines(task.content)) = {}) =>
        LET options == task.result.options IN
        /\ Len(options) = 1
        /\ Len(options[1].text) = Min(Len(task.content), 500)
        /\ options[1].text = SubSeq(task.content, 1, Len(options[1].text))
        /\ options[1].why = "AI suggestion"

C13_Witness ==
    /\ task.pc = "done"
    /\ Len(task.content) = 503
    /\ SubSeq(task.content, 1, 1) = " "
    /\ LabelLines(SeenLines(task.content)) = {}
    /\ Len(task.result.options[1].text) = 500

\* the why lines between the label line i and the next label line
WhyLinesOf(lines, i) ==
    LET later == {n \in DOMAIN lines : n > i /\ IsLabel(lines[n])}
        end == IF later = {} THEN Len(lines) + 1 ELSE Nth(later, 1)
    IN  {j \in (i + 1)..(end - 1) : IsWhy(lines[j])}

\* C14: the why of an option is set by the Why: lines (any letter case)
\* between its own label line and the next label line, the last of them
\* winning, and by no other line; an option with no such line, or with an
\* empty one, gets "A valid alternative".  "1. Foo\nWhy: bar\n2. Baz"
\* gives (Foo, bar), (Baz, A valid alternative).
C14_WhySetsCurrentRationale ==
    task.pc = "done" =>
        /\ LET lines == SeenLines(task.content)
               S == TextLabelLines(lines)
               options == task.result.options
           IN  S # {} =>
                   \A k \in DOMAIN options :
                       LET W == WhyLinesOf(lines, Nth(S, k))
                           said == IF W = {} THEN ""
                                   ELSE Strip(SubSeq(lines[Max(W)], 5,
                                                     Len(lines[Max(W)])))
                       IN  options[k].why =
                               IF said = "" THEN "A valid alternative" ELSE said
        /\ task.content = "1. Foo\nWhy: bar\n2. Baz" =>
              task.result.options =
                  << [text |-> "Foo", why |-> "bar"],
                     [text |-> "Baz", why |-> "A valid alternative"] >>

C14_Witness ==
    /\ task.pc = "done"
    /\ task.content = "1. Foo\nwHY:  so \n2. Baz\nWhy: bar"
    /\ task.result.options =
           << [text |-> "Foo", why |-> "so"],
              [text |-> "Baz", why |-> "bar"] >>

\* a line numbered 4 to 9
IsLaterNumber(line) ==
    /\ Len(line) >= 2
    /\ SubSeq(line, 1, 1) \in {"4", "5", "6", "7", "8", "9"}
    /\ SubSeq(line, 2, 2) = "."

\* the lines that begin a 4th or later section: a numbered or label line
\* with three options already opened before it
LaterSections(lines) ==
    LET S == TextLabelLines(lines) IN
    IF Cardinality(S) < 3 THEN {}
    ELSE {i \in (Nth(S, 3) + 1)..Len(lines) :
              IsLabel(lines[i]) \/ IsLaterNumber(lines[i])}

\* C15: a 4th or later section (its label line such as "4. ..." and the
\* Why: line under it) changes nothing: the result is the three options of
\* the text that ends before that section.
C15_FourthSectionDiscarded ==
    task.pc = "done" =>
        LET lines == SeenLines(task.content)
            later == LaterSections(lines)
        IN  later # {} =>
                /\ Len(task.result.options) = 3
                /\ task.result.options =
                       _parse_options(Join(SubSeq(lines, 1, Nth(later, 1) - 1)))

(***************************************************************************)
(* Properties of the request path                                          *)
(***************************************************************************)
OnAiPath(t) == Len(t.path) >= 7 /\ SubSeq(t.path, 1, 7) = "/api/ai"

\* C16: when dispatch rejects an AI request the client receives status 429
\* with the fixed rate-limit message, and nothing else runs for the
\* request: no token verification, no consent lookup, no endpoint, no POST.
C16_RejectionIs429AndStops ==
    (task.pc = "done" /\ task.at = "dispatch" /\ OnAiPath(task)) =>
        /\ Sent(task).status_code = 429
        /\ Sent(task).detail =
               "Rate limit exceeded. Maximum " \o ToString(limit)
                   \o " AI requests per hour."
        /\ task.trace = <<>>
        /\ task.posts = 0
        /\ task.idp.kind = "none"
        /\ task.user_id = "<None>"

\* C17: a request whose path is not under /api/ai is forwarded by dispatch
\* whatever the caller's history, is never answered by the limiter, and
\* every step taken for it leaves requests (and the limiter's decisions)
\* as they were.
C17_NonAiPathBypassesLimiter ==
    [][ (task' # task /\ ~OnAiPath(task')) =>
            /\ requests' = requests
            /\ log' = log
            /\ task'.at = "dispatch" => task'.pc = "call_next"
            /\ task'.pc = "done" =>
                   /\ task'.at = "health_check"
                   /\ task'.response.status_code = 200 ]_vars

C17_Witness ==
    /\ task.path = "/health"
    /\ task.pc = "done"
    /\ task.response.status_code = 200
    /\ Len(Lookup(requests, ClientIp(task.client))) >= limit
    /\ log # <<>>
    /\ ~log[Len(log)].admitted
    /\ log[Len(log)].client_ip = ClientIp(task.client)
    /\ log[Len(log)].time = now

\* the constraints of a mode request
BodyOk(b) ==
    /\ b.draft_text.present /\ b.draft_text.length \in 1..10000
    /\ b.recipient.present /\ b.recipient.length \in 1..100
    /\ b.intent.present /\ b.intent.length \in 1..500

FirstContent(payload) ==
    IF ~payload.has_choices \/ payload.choices = <<>> THEN ""
    ELSE IF payload.choices[1].message # "object" THEN ""
    ELSE IF payload.choices[1].content \in {"<absent>", "None"} THEN ""
    ELSE payload.choices[1].content

\* C19: on a success status with a JSON payload, _call_llm returns the
\* first choice's message content when it is present and non-empty, and
\* otherwise (no choice, or no non-empty content in the first choice) fails
\* with ParsingError and no other kind.
C19_PayloadValidation ==
    (/\ task.pc = "done" /\ task.at = "endpoint"
     /\ task.outcome.kind = "response"
     /\ task.outcome.status_code \in 200..299
     /\ task.outcome.payload.is_json) =>
        LET said == FirstContent(task.outcome.payload) IN
        /\ said # "" => /\ task.error.cls = "<None>"
                        /\ task.content = said
        /\ said = "" => /\ task.error.cls = "AIParsingError"
                        /\ task.error.error_type = "parsing_error"

\* C20: the response to a ConfigError and to an Unknown failure is one
\* fixed response each, so any two such failures, whatever the provider's
\* body or the underlying exception, give the client the same status and
\* message; the message names nothing of the underlying exception.
C20_GenericMessages ==
    (task.pc = "done" /\ task.at = "endpoint") =>
        /\ Kind(task.error) = "config_error" =>
              task.response =
                  [status_code |-> 503,
                   detail |-> "AI service is temporarily unavailable."]
        /\ Kind(task.error) = "unknown" =>
              /\ task.response =
                     [status_code |-> 503,
                      detail |-> "An unexpected error occurred. Please try again."]
              /\ task.outcome.kind = "raises" =>
                     ~Contains(task.response.detail, task.outcome.exc)

C20_Witness ==
    /\ task.pc = "done" /\ task.at = "endpoint"
    /\ task.outcome.kind = "response"
    /\ ~task.outcome.payload.is_json
    /\ Kind(task.error) = "unknown"
    /\ task.response.status_code = 503

(***************************************************************************)
(* Properties of the mode endpoints                                        *)
(***************************************************************************)
\* the suggestions each explored provider text stands for
OptionsOf(raw) ==
    CASE raw = "\n    1. \"I felt hurt by those words\"\n    Why: This is clearer\n\n"
                   \o "    2. \"When you said that, I felt pain\"\n    Why: Focuses on impact\n    " ->
             << [text |-> "\"I felt hurt by those words\"", why |-> "This is clearer"],
                [text |-> "\"When you said that, I felt pain\"", why |-> "Focuses on impact"] >>
      [] raw = "Option 1: I miss you\nWhy: shorter\n\nOption 2: I have missed you" ->
             << [text |-> "I miss you", why |-> "shorter"],
                [text |-> "I have missed you", why |-> "A valid alternative"] >>
      [] raw = "1. A\n2. B\n3. C\n4. D" ->
             << [text |-> "A", why |-> "A valid alternative"],
                [text |-> "B", why |-> "A valid alternative"],
                [text |-> "C", why |-> "A valid alternative"] >>
      [] raw = "What specific moment made you realize this?" ->
             << [text |-> "What specific moment made you realize this?",
                 why |-> "AI suggestion"] >>

\* C21: every 200 answer of any of the five mode endpoints carries a reply
\* with original_valid = true whose options are the parse of the raw text
\* the provider sent; no request ever holds a reply with original_valid =
\* false (only the absence of a reply has it unset).
C21_ReplyWrapsParse ==
    /\ (task.pc = "done" /\ OnAiPath(task) /\ task.response.status_code = 200) =>
          /\ task.result.original_valid = TRUE
          /\ task.outcome.kind = "response"
          /\ task.result.options =
                 OptionsOf(task.outcome.payload.choices[1].content)
    /\ task.result.original_valid = FALSE =>
          /\ task.result.options = <<>>
          /\ task.response.status_code # 200

C21_Witness ==
    /\ task.pc = "done"
    /\ task.path = "/api/ai/expand"
    /\ task.response.status_code = 200
    /\ task.result.original_valid = TRUE
    /\ Len(task.result.options) = 1
    /\ task.result.options[1].why = "AI suggestion"

C23_NoAdmissionLost ==
    /\ Cardinality({i \in DOMAIN task :
                        task[i].pc \in {"clean", "check", "record"}}) <= 1
    /\ \A c \in {"10.0.0.1", "unknown"} :
           LET stored == IF c \in DOMAIN requests THEN requests[c] ELSE <<>>
               admitted == {k \in DOMAIN log : /\ log[k].client_ip = c
                                               /\ log[k].admitted
                                               /\ now - log[k].time < 3600}
           IN  /\ Cardinality({k \in DOMAIN stored : now - stored[k] < 3600})
                      = Cardinality(admitted)
               /\ Cardinality(admitted) <= limit
               /\ Len(stored) <= limit

C23_Witness ==
    /\ limit = 1
    /\ \E i, j \in DOMAIN task :
           /\ task[i].pc = "call_next" /\ task[i].admitted
           /\ task[j].pc = "done" /\ ~task[j].admitted
           /\ task[j].current_time = task[i].current_time
    /\ Len(log) >= 3
    /\ log[1].admitted /\ ~log[2].admitted /\ ~log[3].admitted

(***************************************************************************)
(* Properties of the limiter's stored timestamps                           *)
(***************************************************************************)
\* C24: a step that rejects an AI request leaves the identifier's stored
\* timestamps as they were but for the expired ones, which it drops, and
\* leaves every other identifier's alone; a request is admitted exactly
\* when fewer than limit admitted requests of its identifier lie in the
\* window, however many were rejected in between, so rejections never
\* postpone the next admission.
C24_RejectionRecordsNothing ==
    [][ Len(log') = Len(log) + 1 =>
            LET e == log'[Len(log')]
                before == IF e.client_ip \in DOMAIN requests
                          THEN requests[e.client_ip] ELSE <<>>
            IN  /\ ~e.admitted =>
                      /\ requests'[e.client_ip] =
                             SelectSeq(before, LAMBDA t : e.time - t < 3600)
                      /\ \A x \in DOMAIN requests \ {e.client_ip} :
                             requests'[x] = requests[x]
                /\ e.admitted <=>
                      Cardinality({k \in DOMAIN log :
                                       /\ log[k].client_ip = e.client_ip
                                       /\ log[k].admitted
                                       /\ e.time - log[k].time < 3600}) < limit
      ]_vars

C24_Witness ==
    /\ limit = 1
    /\ Len(log) = 4
    /\ \A k \in 1..4 : log[k].client_ip = "10.0.0.1"
    /\ log[1].admitted /\ ~log[2].admitted /\ ~log[3].admitted /\ log[4].admitted
    /\ log[4].time - log[1].time = 3600
    /\ requests["10.0.0.1"] = <<log[4].time>>

\* C25 as stated: on each check the limiter drops exactly the stored
\* timestamps whose age is strictly greater than the window; an entry of
\* age exactly 3600 s is retained and counts toward the limit; after the
\* check every stored timestamp of the identifier is no older than the
\* window.
C25_DropsStrictlyOlder ==
    [][ Len(log') = Len(log) + 1 =>
            LET e == log'[Len(log')]
                before == IF e.client_ip \in DOMAIN requests
                          THEN requests[e.client_ip] ELSE <<>>
                kept == SelectSeq(before, LAMBDA t : e.time - t <= 3600)
            IN  /\ requests'[e.client_ip] =
                       IF e.admitted THEN Append(kept, e.time) ELSE kept
                /\ e.admitted <=> Len(kept) < limit
                /\ \A k \in DOMAIN requests'[e.client_ip] :
                       e.time - requests'[e.client_ip][k] <= 3600
      ]_vars

\* C25 amended: on each check the limiter drops exactly the stored
\* timestamps whose age is 3600 s or more and keeps, in order, those
\* younger than 3600 s; an entry of age exactly 3600 s is dropped and no
\* longer counts; after the check every stored timestamp of the identifier
\* is younger than 3600 s.
C25_DropsWindowOldAndOlder ==
    [][ Len(log') = Len(log) + 1 =>
            LET e == log'[Len(log')]
                before == IF e.client_ip \in DOMAIN requests
                          THEN requests[e.client_ip] ELSE <<>>
                kept == SelectSeq(before, LAMBDA t : e.time - t < 3600)
            IN  /\ requests'[e.client_ip] =
                       IF e.admitted THEN Append(kept, e.time) ELSE kept
                /\ e.admitted <=> Len(kept) < limit
                /\ \A k \in DOMAIN before :
                       e.time - before[k] = 3600 =>
                           \A j \in DOMAIN requests'[e.client_ip] :
                               requests'[e.client_ip][j] # before[k]
                /\ \A k \in DOMAIN requests'[e.client_ip] :
                       e.time - requests'[e.client_ip][k] < 3600
      ]_vars

C25_Witness ==
    /\ limit = 1
    /\ Len(log) = 2
    /\ log[1].client_ip = "unknown" /\ log[2].client_ip = "unknown"
    /\ log[1].admitted /\ log[2].admitted
    /\ log[2].time - log[1].time = 3600
    /\ requests["unknown"] = <<log[2].time>>
    /\ now = log[2].time

\* C26: an AI request that the limiter let through is recorded under its
\* caller's address from the moment dispatch forwards it: before token
\* verification, the consent check and body validation run, and whatever
\* the answer then is (401, 403, 422, a provider error or 200), its time
\* is among the address's stored timestamps and the limiter's step is the
\* first of the request.
C26_QuotaConsumedBeforeGates ==
    (/\ task.pc # "idle"
     /\ OnAiPath(task)
     /\ ~(task.pc = "done" /\ task.at = "dispatch")) =>
        LET c == IF task.client = "<no client>" THEN "unknown" ELSE task.client IN
        /\ log # <<>>
        /\ log[Len(log)].admitted
        /\ log[Len(log)].client_ip = c
        /\ c \in DOMAIN requests
        /\ requests[c] # <<>>
        /\ requests[c][Len(requests[c])] = log[Len(log)].time
        /\ Len(requests[c]) =
               Cardinality({k \in DOMAIN log : log[k].client_ip = c /\ log[k].admitted})
        /\ task.trace # <<>>
        /\ task.trace[1] = "limiter"
        /\ task.pc = "call_next" => task.trace = <<"limiter">>
        /\ task.pc = "done" =>
               task.response.status_code \in {200, 401, 403, 422, 429, 500, 503, 504}

C26_Witness ==
    /\ limit = 2
    /\ task.pc = "done" /\ task.at = "request_body"
    /\ task.response.status_code = 422
    /\ Len(log) = 2
    /\ Len(requests["10.0.0.1"]) = 2

(***************************************************************************)
(* Properties of the tone endpoint                                         *)
(***************************************************************************)
\* C27: of two tone requests that differ in target_tone only (absent or
\* any value), both send the provider the same system prompt and the same
\* user prompt, neither prompt holds the target tone, and when the
\* provider gives both the same answer both get the same response and
\* reply.
C27_TargetToneIgnored ==
    \A i, j \in DOMAIN task :
        (/\ task[i].body.draft_text = task[j].body.draft_text
         /\ task[i].body.recipient = task[j].body.recipient
         /\ task[i].body.intent = task[j].body.intent) =>
            /\ (task[i].posts > 0 /\ task[j].posts > 0) =>
                  /\ Len(task[i].messages) = 2
                  /\ task[i].messages[1].role = "system"
                  /\ task[i].messages[2].role = "user"
                  /\ task[i].messages[1].content = task[j].messages[1].content
                  /\ task[i].messages[2].content = task[j].messages[2].content
            /\ task[i].posts > 0 =>
                  \A m \in 1..2 :
                      \A k \in DOMAIN task[i].messages[m].content :
                          task[i].messages[m].content[k].lit
                              # task[i].body.target_tone
            /\ (/\ task[i].pc = "done" /\ task[j].pc = "done"
                /\ task[i].outcome = task[j].outcome) =>
                  /\ task[i].response = task[j].response
                  /\ task[i].result = task[j].result

C27_Witness ==
    /\ task[1].body.target_tone = "<None>"
    /\ task[2].body.target_tone = "direct"
    /\ task[1].pc = "done" /\ task[2].pc = "done"
    /\ task[1].messages = task[2].messages
    /\ Len(task[1].messages[2].content) = 3
    /\ task[1].outcome = task[2].outcome
    /\ task[1].response.status_code = 200
    /\ Len(task[2].result.options) = 2

(***************************************************************************)
(* Properties of the limiter's identifiers                                 *)
(***************************************************************************)
\* the decisions of a limiter that sees only the requests made at times:
\* kept holds the times it admitted
RECURSIVE DecideAlone(_, _, _)
DecideAlone(times, kept, lim) ==
    IF times = <<>> THEN <<>>
    ELSE LET t == Head(times)
             live == SelectSeq(kept, LAMBDA x : t - x < 3600)
             ok == Len(live) < lim
         IN  <<ok>> \o DecideAlone(Tail(times),
                                   IF ok THEN Append(live, t) ELSE live, lim)

\* C28: a request is decided under its caller's address, or under
\* "unknown" when it carries none; the step that decides it, admitting or
\* rejecting, leaves the stored timestamps of every other identifier as
\* they were, and no other step changes any; the decisions about an
\* identifier are those of a limiter that saw that identifier's requests
\* alone.
C28_IdentifiersIsolated ==
    /\ [][ IF Len(log') = Len(log) + 1
           THEN LET e == log'[Len(log')]
                    a == IF task'.client = "<no client>"
                         THEN "unknown" ELSE task'.client
                IN  /\ e.client_ip = a
                    /\ \A b \in (DOMAIN requests \cup DOMAIN requests') \ {a} :
                           /\ b \in DOMAIN requests /\ b \in DOMAIN requests'
                           /\ requests'[b] = requests[b]
           ELSE requests' = requests /\ log' = log ]_vars
    /\ [](\A c \in {"10.0.0.1", "unknown"} :
              LET L == SelectSeq(log, LAMBDA e : e.client_ip = c) IN
              [k \in DOMAIN L |-> L[k].admitted]
                  = DecideAlone([k \in DOMAIN L |-> L[k].time], <<>>, limit))

C28_Witness ==
    /\ limit = 1
    /\ Len(log) = 4
    /\ log[1].client_ip = "10.0.0.1" /\ log[1].admitted
    /\ log[2].client_ip = "unknown" /\ log[2].admitted
    /\ log[3].client_ip = "10.0.0.1" /\ ~log[3].admitted
    /\ log[4].client_ip = "unknown" /\ ~log[4].admitted
    /\ task.client = "<no client>"
    /\ requests["10.0.0.1"] = <<0>>
    /\ requests["unknown"] = <<0>>

====
